---- MODULE Spec2Model ----
(***************************************************************************)
(* Model of pkg/validate/container.go of cri-tools: the container         *)
(* conformance scenarios, the bounded stop (stopContainer), the polled     *)
(* lifecycle assertions and the container log parser (parseLogLine,        *)
(* parseDockerJSONLog, parseCRILog, verifyLogContents).                    *)
(*                                                                         *)
(* A Go string is modelled as a sequence of atoms.  An atom is a run of    *)
(* bytes that contains no space and no brace, or it is the single space,   *)
(* the single "{" or the single "}".  strings.SplitN and strings.HasPrefix *)
(* therefore act on atom boundaries exactly as they act on bytes, and      *)
(* len() is the sum of the atoms' byte lengths.                            *)
(***************************************************************************)
EXTENDS Integers, Sequences, FiniteSets, TLC

(* ------------------------------ bounds --------------------------------- *)

\* largest number of space-separated segments of a generated CRI-style line
MaxSegs == 5

\* largest number of lines of a generated multi-line log file
MaxLines == 2

(* ------------------------------ atoms ---------------------------------- *)

SP == " "
LB == "{"
RB == "}"
NL == "\n"
COMMA == ","

TSa == "2016-10-06T00:17:09.669794202Z"
TSb == "2016-10-06T00:17:08.5Z"
Junk == "not-json-and-too-short"
Short == "x"

JLogNL == "\"log\":\"hello\\n\""
JLog == "\"log\":\"hello\""
JStreamOut == "\"stream\":\"stdout\""
JStreamErr == "\"stream\":\"stderr\""
JStreamEmpty == "\"stream\":\"\""
JStreamOther == "\"stream\":\"other\""
JTimeA == "\"time\":\"2016-10-06T00:17:09.669794202Z\""
JTimeBad == "\"time\":\"yesterday\""

\* len() of one atom, in bytes
AtomLen(a) ==
  CASE a = TSa -> 30
    [] a = TSb -> 22
    [] a = Junk -> 22
    [] a = JLogNL -> 15
    [] a = JLog -> 13
    [] a = JStreamOut -> 17
    [] a = JStreamErr -> 17
    [] a = JStreamEmpty -> 11
    [] a = JStreamOther -> 16
    [] a = JTimeA -> 39
    [] a = JTimeBad -> 18
    [] a \in {"stdout", "stderr"} -> 6
    [] a \in {"hello", "World", "other"} -> 5
    [] OTHER -> 1

RECURSIVE ByteLen(_)
\* len(s) of a Go string
ByteLen(s) == IF s = <<>> THEN 0 ELSE AtomLen(Head(s)) + ByteLen(Tail(s))

(* --------------------------- constants and types ----------------------- *)

stdoutType == <<"stdout">>
stderrType == <<"stderr">>
defaultLog == <<"hello", SP, "World">>

\* the zero value of time.Time
ZeroTime == [sec |-> 0 - 1, nsec |-> 0]

\* the zero value of logMessage
logMessage == [timestamp |-> ZeroTime, stream |-> <<>>, log |-> <<>>]

(* ------------------------- library functions --------------------------- *)

\* time.Parse(time.RFC3339Nano, s): seconds of the day and nanoseconds
TimeParse(s) ==
  CASE s = <<TSa>> -> [err |-> FALSE, t |-> [sec |-> 1029, nsec |-> 669794202]]
    [] s = <<TSb>> -> [err |-> FALSE, t |-> [sec |-> 1028, nsec |-> 500000000]]
    [] OTHER -> [err |-> TRUE, t |-> ZeroTime]

\* index of the first space of s, 0 when there is none
IndexSP(s) ==
  IF \E i \in 1..Len(s) : s[i] = SP
  THEN CHOOSE i \in 1..Len(s) : s[i] = SP /\ \A j \in 1..(i - 1) : s[j] # SP
  ELSE 0

RECURSIVE SplitN(_, _)
\* strings.SplitN(s, " ", n) for n >= 1
SplitN(s, n) ==
  LET i == IndexSP(s)
  IN IF n <= 1 \/ i = 0
     THEN <<s>>
     ELSE <<SubSeq(s, 1, i - 1)>> \o SplitN(SubSeq(s, i + 1, Len(s)), n - 1)

\* the first atom of s that is not a space, "" when there is none
FirstNonSpace(s) ==
  LET NotSpace(a) == a # SP
      t == SelectSeq(s, NotSpace)
  IN IF t = <<>> THEN "" ELSE t[1]

HasPrefixTrimmed(line) == FirstNonSpace(line) = LB

\* strings.HasPrefix(line, "{")
HasPrefixLB(line) == Len(line) >= 1 /\ line[1] = LB

\* one "key":"value" member of a JSON object: its key and its decoded value
JSONMember(a) ==
  CASE a = JLogNL -> [key |-> "log", val |-> <<"hello", NL>>]
    [] a = JLog -> [key |-> "log", val |-> <<"hello">>]
    [] a = JStreamOut -> [key |-> "stream", val |-> <<"stdout">>]
    [] a = JStreamErr -> [key |-> "stream", val |-> <<"stderr">>]
    [] a = JStreamEmpty -> [key |-> "stream", val |-> <<>>]
    [] a = JStreamOther -> [key |-> "stream", val |-> <<"other">>]
    [] a = JTimeA -> [key |-> "time", val |-> <<TSa>>]
    [] a = JTimeBad -> [key |-> "time", val |-> <<"yesterday">>]
    [] OTHER -> [key |-> "", val |-> <<>>]

IsMember(a) == JSONMember(a).key # ""

\* the text, spaces between its tokens dropped, is "{" members separated by "," "}"
JSONObjectShape(s) ==
  /\ Len(s) >= 2
  /\ s[1] = LB
  /\ s[Len(s)] = RB
  /\ Len(s) = 2 \/ Len(s) % 2 = 1
  /\ \A i \in 2..(Len(s) - 1) : IF i % 2 = 0 THEN IsMember(s[i]) ELSE s[i] = COMMA

\* value of the last member of s with key k, or the given default
JSONField(s, k, default) ==
  LET idx == {i \in 1..Len(s) : JSONMember(s[i]).key = k}
  IN IF idx = {} THEN default
     ELSE JSONMember(s[CHOOSE i \in idx : \A j \in idx : j <= i]).val

\* json.Unmarshal(log, &l) for l jsonlog.JSONLog{Log, Stream, Created}
Unmarshal(text) ==
  LET IsToken(a) == a # SP
      s == SelectSeq(text, IsToken)
      created == JSONField(s, "time", <<>>)
  IN IF ~JSONObjectShape(s) THEN [err |-> TRUE, l |-> [Log |-> <<>>, Stream |-> <<>>, Created |-> ZeroTime]]
     ELSE IF created # <<>> /\ TimeParse(created).err
          THEN [err |-> TRUE, l |-> [Log |-> JSONField(s, "log", <<>>), Stream |-> JSONField(s, "stream", <<>>), Created |-> ZeroTime]]
          ELSE [err |-> FALSE,
                l |-> [Log |-> JSONField(s, "log", <<>>),
                       Stream |-> JSONField(s, "stream", <<>>),
                       Created |-> IF created = <<>> THEN ZeroTime ELSE TimeParse(created).t]]

(* ------------------------------ decoders ------------------------------- *)

parseDockerJSONLogNewline(log, msg) ==
  LET u == Unmarshal(log)
  IN IF u.err
     THEN [kind |-> "MalformedRecord", msg |-> msg]
     ELSE [kind |-> "ok",
           msg |-> [timestamp |-> u.l.Created, stream |-> u.l.Stream, log |-> u.l.Log \o <<NL>>]]

parseDockerJSONLogKeep(log, msg) ==
  LET u == Unmarshal(log)
  IN IF u.err
     THEN [kind |-> "MalformedRecord", msg |-> msg]
     ELSE [kind |-> "ok",
           msg |-> [timestamp |-> IF u.l.Created = ZeroTime THEN msg.timestamp ELSE u.l.Created,
                    stream |-> IF u.l.Stream = <<>> THEN msg.stream ELSE u.l.Stream,
                    log |-> IF u.l.Log = <<>> THEN msg.log ELSE u.l.Log]]

\* parseDockerJSONLog: kind is "ok", or "MalformedRecord" when ExpectNoError fails
parseDockerJSONLog(log, msg) ==
  LET u == Unmarshal(log)
  IN IF u.err
     THEN [kind |-> "MalformedRecord", msg |-> msg]
     ELSE [kind |-> "ok",
           msg |-> [timestamp |-> u.l.Created, stream |-> u.l.Stream, log |-> u.l.Log]]

parseCRILogSplitAll(log, msg) ==
  LET segs == SplitN(log, Len(log) + 1)
      timeStamp == TimeParse(segs[1])
  IN IF ByteLen(log) < 4 THEN [kind |-> "MalformedRecord", msg |-> msg]
     ELSE IF timeStamp.err THEN [kind |-> "MalformedRecord", msg |-> msg]
     ELSE IF Len(segs) < 2 THEN [kind |-> "Panic", msg |-> msg]
     ELSE IF Len(segs) < 4
          THEN [kind |-> "Panic",
                msg |-> [msg EXCEPT !.timestamp = timeStamp.t, !.stream = segs[2]]]
          ELSE [kind |-> "ok",
                msg |-> [timestamp |-> timeStamp.t, stream |-> segs[2], log |-> segs[4] \o <<NL>>]]

parseCRILogCheckStream(log, msg) ==
  LET segs == SplitN(log, 4)
      timeStamp == TimeParse(segs[1])
  IN IF ByteLen(log) < 4 THEN [kind |-> "MalformedRecord", msg |-> msg]
     ELSE IF timeStamp.err THEN [kind |-> "MalformedRecord", msg |-> msg]
     ELSE IF Len(segs) < 2 THEN [kind |-> "Panic", msg |-> msg]
     ELSE IF segs[2] \notin {stdoutType, stderrType}
          THEN [kind |-> "MalformedRecord", msg |-> [msg EXCEPT !.timestamp = timeStamp.t]]
     ELSE IF Len(segs) < 4
          THEN [kind |-> "Panic",
                msg |-> [msg EXCEPT !.timestamp = timeStamp.t, !.stream = segs[2]]]
          ELSE [kind |-> "ok",
                msg |-> [timestamp |-> timeStamp.t, stream |-> segs[2], log |-> segs[4] \o <<NL>>]]

\* parseCRILog: kind is "ok", "MalformedRecord" when ExpectNoError fails, or
\* "Panic" when logMessage[1] or logMessage[3] is out of range
parseCRILog(log, msg) ==
  LET segs == SplitN(log, 4)
      timeStamp == TimeParse(segs[1])
  IN IF ByteLen(log) < 4 THEN [kind |-> "MalformedRecord", msg |-> msg]
     ELSE IF timeStamp.err THEN [kind |-> "MalformedRecord", msg |-> msg]
     ELSE IF Len(segs) < 2 THEN [kind |-> "Panic", msg |-> msg]
     ELSE IF Len(segs) < 4
          THEN [kind |-> "Panic",
                msg |-> [msg EXCEPT !.timestamp = timeStamp.t, !.stream = segs[2]]]
          ELSE [kind |-> "ok",
                msg |-> [timestamp |-> timeStamp.t, stream |-> segs[2], log |-> segs[4] \o <<NL>>]]

\* the body of the scan loop of parseLogLine for one line: the decoder the
\* line is routed to ("A" is Docker JSON, "B" is CRI) and what it returns
DecodeLine(line, msg) ==
  IF HasPrefixLB(line)
  THEN [enc |-> "A", res |-> parseDockerJSONLog(line, msg)]
  ELSE [enc |-> "B", res |-> parseCRILog(line, msg)]

AppendSorted(msgLog, msg) ==
  IF msgLog # <<>> /\ msg.timestamp.sec < msgLog[Len(msgLog)].timestamp.sec
  THEN SubSeq(msgLog, 1, Len(msgLog) - 1) \o <<msg, msgLog[Len(msgLog)]>>
  ELSE Append(msgLog, msg)

\* msgLog = append(msgLog, msg)
AppendMsg(msgLog, msg) == Append(msgLog, msg)

containsLog(msgs, log, stream) == \E i \in 1..Len(msgs) : msgs[i].log = log

RECURSIVE containsMessage(_, _, _)
\* the scan of verifyLogContents: stops at the first record that matches
containsMessage(msgs, log, stream) ==
  IF msgs = <<>> THEN FALSE
  ELSE IF Head(msgs).log = log /\ Head(msgs).stream = stream THEN TRUE
  ELSE containsMessage(Tail(msgs), log, stream)

(* --------------------------- generated inputs -------------------------- *)

\* the segments a generated CRI-style line may have at position i
SegAt(i) ==
  CASE i = 1 -> {<<TSa>>, <<TSb>>, <<Junk>>}
    [] i = 2 -> {<<"stdout">>, <<"stderr">>, <<"other">>, <<>>}
    [] i = 3 -> {<<"F">>, <<"P">>}
    [] OTHER -> {<<"hello">>, <<"World">>}

RECURSIVE SegLines(_)
\* the lines made of exactly n segments joined by single spaces
SegLines(n) ==
  IF n = 1 THEN SegAt(1)
  ELSE {l \o <<SP>> \o s : l \in SegLines(n - 1), s \in SegAt(n)}

CRILines == UNION {SegLines(n) : n \in 1..MaxSegs}

\* "{" members "}" with each of log, stream and time present or omitted
JSONBodies ==
  {<<>>, <<JLogNL>>, <<JLog>>, <<JStreamOut>>, <<JTimeA>>, <<JTimeBad>>,
   <<JLogNL, COMMA, JStreamOut>>, <<JLogNL, COMMA, JStreamErr>>,
   <<JLog, COMMA, JStreamEmpty>>, <<JLogNL, COMMA, JTimeA>>,
   <<JLogNL, COMMA, JStreamOut, COMMA, JTimeA>>,
   <<JLogNL, COMMA, JStreamErr, COMMA, JTimeA>>,
   <<JLog, COMMA, JStreamOut, COMMA, JTimeA>>,
   <<JStreamOut, COMMA, JLogNL, COMMA, JTimeA>>,
   <<JLogNL, COMMA, JStreamOut, COMMA, JTimeBad>>,
   <<JLogNL, COMMA, JStreamOut, COMMA, JStreamErr>>,
   <<JLogNL, COMMA, JStreamOther>>,
   <<JLogNL, COMMA, JStreamOther, COMMA, JTimeA>>,
   <<JLogNL, COMMA, JStreamEmpty, COMMA, JTimeBad>>}

JSONLines == {<<LB>> \o b \o <<RB>> : b \in JSONBodies}

OddLines ==
  {<<>>, <<Short>>, <<Short, SP, Short>>, <<SP>>,
   <<Short, SP, Short, SP, Short, SP, Short>>,
   <<LB>>, <<LB, JLogNL>>, <<LB, "hello", RB>>, <<LB, SP, JLogNL, RB>>,
   <<TSa, SP, "stdout", SP, "F", SP>>,
   <<TSa, SP, "stdout", SP, "F", SP, LB, "hello", RB>>}

PlainLines == CRILines \cup JSONLines \cup OddLines

\* every generated line, and the same line behind one and behind two spaces
Lines == PlainLines \cup {<<SP>> \o l : l \in PlainLines} \cup {<<SP, SP>> \o l : l \in JSONLines}

\* the lines the multi-line files are made of
CoreLines ==
  {<<TSa, SP, "stdout", SP, "F", SP, "hello", SP, "World">>,
   <<TSb, SP, "stderr", SP, "P", SP, "hello">>,
   <<LB, JLogNL, COMMA, JStreamOut, COMMA, JTimeA, RB>>,
   <<LB, JLog, RB>>,
   <<TSa, SP, "stdout", SP, "F">>,
   <<Junk>>}

\* the contents the log file may have when it is opened
Files ==
  {<<>>} \cup {<<l>> : l \in Lines}
  \cup UNION {[1..n -> CoreLines] : n \in 2..MaxLines}

\* the contents the log file may have when a polled probe opens it
ProbeFiles ==
  {<<>>} \cup {<<l>> : l \in CoreLines}
  \cup {<<<<LB, JLogNL, COMMA, JStreamOut, COMMA, JTimeA, RB>>, <<Junk>>>>}

\* the (log, stream) arguments verifyLogContents is called with
Queries ==
  {[log |-> l, stream |-> s] :
     l \in {defaultLog \o <<NL>>, defaultLog, <<"hello", NL>>, <<"hello">>},
     s \in {stdoutType, stderrType}}

(* ------------------------------ scenarios ------------------------------ *)

\* the It blocks of the four contexts
Scenarios ==
  {"create", "start", "stop", "remove", "execSync", "execSyncWrong",
   "volume", "symlink", "log", "reopen",
   "extCreate", "extStart", "extStatus", "imageStatus", "volumes"}

RemovingVolumesRemoveFirst ==
  <<"hostPath", "create", "status", "removeContainer", "stopContainer">>

\* the steps of It("runtime should support removing volumes")
RemovingVolumes ==
  <<"hostPath", "create", "status", "stopContainer", "removeContainer">>

\* the steps of the It blocks, in program order
Steps(sc) ==
  CASE sc = "create" -> <<"create", "pollCreated", "list">>
    [] sc = "start" -> <<"create", "start", "pollRunning">>
    [] sc = "stop" -> <<"create", "start", "stopContainer", "pollExited">>
    [] sc = "remove" -> <<"create", "removeContainer", "list">>
    [] sc = "execSync" -> <<"create", "start", "execSync">>
    [] sc = "execSyncWrong" -> <<"create", "start", "execSyncErr">>
    [] sc = "volume" -> <<"hostPath", "create", "start", "pollRunning", "execSync">>
    [] sc = "symlink" -> <<"hostPath", "symlink", "create", "start", "pollRunning", "execSync">>
    [] sc = "log" -> <<"create", "start", "pollExited", "verifyLog">>
    [] sc = "reopen" -> <<"create", "start", "pollLog", "rename", "reopen",
                          "pathExists", "pollLog", "consistently">>
    [] sc = "extCreate" -> <<"hostPath", "create", "list">>
    [] sc = "extStart" -> <<"hostPath", "create", "start", "pollRunning">>
    [] sc = "extStatus" -> <<"hostPath", "create", "status">>
    [] sc = "imageStatus" -> <<"hostPath", "create", "status", "imageStatus">>
    [] sc = "volumes" -> RemovingVolumes

\* timeout and polling interval of Eventually(..., time.Minute, time.Second*4), in seconds
PollTimeout == 60
PollInterval == 4

\* polling interval of Eventually(parseLogLine, time.Minute, time.Second), in seconds
LogPollInterval == 1

\* the state the polls on the container status wait for
Target(kind) ==
  CASE kind = "pollCreated" -> "CREATED"
    [] kind = "pollRunning" -> "RUNNING"
    [] OTHER -> "EXITED"

TimedOutLate(t) == t > PollTimeout + PollInterval

\* Eventually gives up once the cumulative elapsed time exceeds the timeout
TimedOut(t) == t > PollTimeout

ContainerStates == {"CREATED", "RUNNING", "EXITED", "UNKNOWN"}

VARIABLES
  scenario,        \* the It block being run
  step,            \* index of the current step in Steps(scenario)
  pc,              \* position of the main goroutine
  result,          \* "running", "passed" or "failed"
  podID,           \* the sandbox of the context, "" before it is created
  sbCalls,         \* the calls the teardown has made, in order
  calls,           \* the container runtime calls made so far, in order
  gpc,             \* position of the goroutine of stopContainer
  callErr,         \* whether StopContainer returned a non-nil error
  stopped,         \* contents of the channel stopped (capacity 1)
  timer,           \* "off", "armed", "fired" (value in the channel), "received"
  order,           \* the order in which StopContainer returned and the timer fired
  reportedStopped, \* "Stopped container" was logged
  reportedTimeout, \* "stop container timeout" was raised
  elapsed,         \* seconds since Eventually started
  seen,            \* the probes of the current Eventually: time and predicate value
  pollRes,         \* "none", "success" or "TimeoutError"
  file,            \* contents of the opened log file: a sequence of lines
  idx,             \* number of lines scanned
  msg,             \* the logMessage variable of parseLogLine
  msgLog,          \* the slice msgLog of parseLogLine
  last,            \* the line decoded last, the decoder used and its outcome
  logRes,          \* outcome of parseLogLine: "none", "ok", "IOError", "MalformedRecord", "Panic"
  query,           \* the (log, stream) arguments of verifyLogContents
  found            \* the variable found of verifyLogContents

vars == <<scenario, step, pc, result, podID, sbCalls, calls, gpc, callErr, stopped,
          timer, order, reportedStopped, reportedTimeout, elapsed, seen, pollRes,
          file, idx, msg, msgLog, last, logRes, query, found>>

stopVars == <<gpc, callErr, stopped, timer, order, reportedStopped, reportedTimeout>>
pollVars == <<elapsed, seen, pollRes>>
logVars == <<file, idx, msg, msgLog, last, logRes, query, found>>
podVars == <<podID, sbCalls>>

Init ==
  /\ scenario \in Scenarios
  /\ step = 0
  /\ pc = "BeforeEach"
  /\ result = "running"
  /\ podID = ""
  /\ sbCalls = <<>>
  /\ calls = <<>>
  /\ gpc = "idle"
  /\ callErr = FALSE
  /\ stopped = <<>>
  /\ timer = "off"
  /\ order = <<>>
  /\ reportedStopped = FALSE
  /\ reportedTimeout = FALSE
  /\ elapsed = 0
  /\ seen = <<>>
  /\ pollRes = "none"
  /\ file = <<>>
  /\ idx = 0
  /\ msg = logMessage
  /\ msgLog = <<>>
  /\ last = [line |-> <<>>, enc |-> "none", kind |-> "none"]
  /\ logRes = "none"
  /\ query = [log |-> <<>>, stream |-> <<>>]
  /\ found = FALSE

\* the step of the It block the main goroutine is in, "none" outside the steps
StepKind ==
  IF step \in 1..Len(Steps(scenario)) THEN Steps(scenario)[step] ELSE "none"

\* the current step of the It block
Cur == IF pc = "step" THEN Steps(scenario)[step] ELSE "none"

\* the polling interval of the Eventually of the current step
Interval == IF StepKind = "pollLog" THEN LogPollInterval ELSE PollInterval

\* the step returned: the next step runs, or the It block ends
Advance ==
  /\ step' = step + 1
  /\ IF step + 1 > Len(Steps(scenario))
     THEN /\ pc' = "AfterEach"
          /\ result' = IF result = "failed" THEN "failed" ELSE "passed"
     ELSE /\ pc' = "step"
          /\ result' = result

\* a failed assertion on the main goroutine: the rest of the It block is skipped
Fatal ==
  /\ step' = step
  /\ pc' = "AfterEach"
  /\ result' = "failed"

(* ----------------------- the context's hooks --------------------------- *)

\* BeforeEach: framework.CreatePodSandboxForContainer, createPodSandboxWithLogDirectory
BeforeEach ==
  /\ pc = "BeforeEach"
  /\ \E err \in BOOLEAN :
       IF err
       THEN /\ podID' = podID
            /\ step' = step
            /\ pc' = "AfterEach"
            /\ result' = "failed"
       ELSE /\ podID' = "pod"
            /\ step' = 1
            /\ pc' = "step"
            /\ result' = result
  /\ UNCHANGED <<scenario, sbCalls, calls, stopVars, pollVars, logVars>>

AfterEachCallsOnPass(sc, id) ==
  IF result = "failed" THEN <<>>
  ELSE <<[op |-> "StopPodSandbox", id |-> id], [op |-> "RemovePodSandbox", id |-> id]>>

\* the calls of the AfterEach of the context of scenario sc, in program order
AfterEachCalls(sc, id) ==
  <<[op |-> "StopPodSandbox", id |-> id], [op |-> "RemovePodSandbox", id |-> id]>>
  \o (IF sc = "log" THEN <<[op |-> "RemoveAll", id |-> id]>> ELSE <<>>)

\* AfterEach: runs after the It block whatever its outcome
AfterEach ==
  /\ pc = "AfterEach"
  /\ sbCalls' = sbCalls \o AfterEachCalls(scenario, podID)
  /\ pc' = "done"
  /\ UNCHANGED <<scenario, step, result, podID, calls, stopVars, pollVars, logVars>>

(* ------------------------- plain runtime calls ------------------------- *)

\* a step that makes one runtime call and asserts that it returned no error
RuntimeCall(name, call) ==
  /\ Cur = name
  /\ calls' = Append(calls, call)
  /\ \E err \in BOOLEAN : IF err THEN Fatal ELSE Advance
  /\ UNCHANGED <<scenario, podVars, stopVars, pollVars, logVars>>

\* framework.CreateDefaultContainer, createLogContainer, createExtendedContainer
CreateContainer == RuntimeCall("create", "CreateContainer")

startContainer == RuntimeCall("start", "StartContainer")

removeContainer == RuntimeCall("removeContainer", "RemoveContainer")

\* getContainerStatus outside a poll, followed by the check of the volume name
getContainerStatus == RuntimeCall("status", "ContainerStatus")

\* listContainerForID, followed by the check of containerFound
listContainerForID == RuntimeCall("list", "ListContainers")

\* execSyncContainer, followed by the checks of its output
execSyncContainer == RuntimeCall("execSync", "ExecSync")

\* verifyExecSyncContainOutput: ExecSync must return an error
verifyExecSyncContainOutput == RuntimeCall("execSyncErr", "ExecSync")

\* framework.ImageStatus, followed by the check of the volumes
ImageStatus == RuntimeCall("imageStatus", "ImageStatus")

\* Expect(rc.ReopenContainerLog(containerID)).To(Succeed())
ReopenContainerLog == RuntimeCall("reopen", "ReopenContainerLog")

\* a step that makes no call on the container runtime and asserts its result
LocalStep(name) ==
  /\ Cur = name
  /\ \E err \in BOOLEAN : IF err THEN Fatal ELSE Advance
  /\ UNCHANGED <<scenario, podVars, calls, stopVars, pollVars, logVars>>

createHostPath == LocalStep("hostPath")

createSymlink == LocalStep("symlink")

\* Expect(os.Rename(logPath, newLogPath)).To(Succeed())
RenameLog == LocalStep("rename")

\* Expect(pathExists(logPath)).To(BeTrue())
pathExists == LocalStep("pathExists")

\* the check that the renamed log no longer grows; its reads of the log are
\* not unfolded
Consistently == LocalStep("consistently")

(* ---------------------------- stopContainer ---------------------------- *)

\* stopContainer up to its select: makes the channel, starts the goroutine,
\* arms the timer of time.After
stopContainer ==
  /\ Cur = "stopContainer"
  /\ stopped' = <<>>
  /\ gpc' = "call"
  /\ timer' = "armed"
  /\ pc' = "select"
  /\ UNCHANGED <<scenario, step, result, podVars, calls, callErr, order,
                 reportedStopped, reportedTimeout, pollVars, logVars>>

\* the goroutine: c.StopContainer(containerID, timeout) returns
GoStopContainer ==
  /\ gpc = "call"
  /\ \E err \in BOOLEAN : callErr' = err
  /\ gpc' = "returned"
  /\ calls' = Append(calls, "StopContainer")
  /\ order' = Append(order, "returned")
  /\ UNCHANGED <<scenario, step, pc, result, podVars, stopped, timer,
                 reportedStopped, reportedTimeout, pollVars, logVars>>

GoSendAlways ==
  /\ gpc = "returned"
  /\ Len(stopped) < 1
  /\ stopped' = Append(stopped, TRUE)
  /\ gpc' = "done"
  /\ UNCHANGED <<scenario, step, pc, result, podVars, calls, callErr, timer, order,
                 reportedStopped, reportedTimeout, pollVars, logVars>>

GoSendUnbuffered ==
  /\ gpc = "returned"
  /\ IF callErr
     THEN /\ gpc' = "failed"
          /\ result' = "failed"
          /\ stopped' = stopped
     ELSE /\ pc = "select"
          /\ Len(stopped) < 1
          /\ stopped' = Append(stopped, TRUE)
          /\ gpc' = "done"
          /\ result' = result
  /\ UNCHANGED <<scenario, step, pc, podVars, calls, callErr, timer, order,
                 reportedStopped, reportedTimeout, pollVars, logVars>>

\* the goroutine: ExpectNoError, then the send on stopped.  A failed
\* assertion is recorded and the panic is swallowed by GinkgoRecover.
GoSend ==
  /\ gpc = "returned"
  /\ IF callErr
     THEN /\ gpc' = "failed"
          /\ result' = "failed"
          /\ stopped' = stopped
     ELSE /\ Len(stopped) < 1
          /\ stopped' = Append(stopped, TRUE)
          /\ gpc' = "done"
          /\ result' = result
  /\ UNCHANGED <<scenario, step, pc, podVars, calls, callErr, timer, order,
                 reportedStopped, reportedTimeout, pollVars, logVars>>

\* the timer of time.After(timeout seconds) fires: a value is in its channel
TimerFire ==
  /\ timer = "armed"
  /\ timer' = "fired"
  /\ order' = Append(order, "timer")
  /\ UNCHANGED <<scenario, step, pc, result, podVars, calls, gpc, callErr, stopped,
                 reportedStopped, reportedTimeout, pollVars, logVars>>

\* select, case <-stopped
SelectStopped ==
  /\ pc = "select"
  /\ stopped # <<>>
  /\ stopped' = Tail(stopped)
  /\ reportedStopped' = TRUE
  /\ Advance
  /\ UNCHANGED <<scenario, podVars, calls, gpc, callErr, timer, order,
                 reportedTimeout, pollVars, logVars>>

SelectTimeoutEarly ==
  /\ pc = "select"
  /\ timer' = "received"
  /\ reportedTimeout' = TRUE
  /\ Fatal
  /\ UNCHANGED <<scenario, podVars, calls, gpc, callErr, stopped, order,
                 reportedStopped, pollVars, logVars>>

\* select, case <-time.After(...): framework.Failf
SelectTimeout ==
  /\ pc = "select"
  /\ timer = "fired"
  /\ timer' = "received"
  /\ reportedTimeout' = TRUE
  /\ Fatal
  /\ UNCHANGED <<scenario, podVars, calls, gpc, callErr, stopped, order,
                 reportedStopped, pollVars, logVars>>

(* ------------------- Eventually(state).Should(Equal(EXITED)) ----------- *)

\* Eventually is called: the first probe runs at once
Eventually ==
  /\ Cur \in {"pollCreated", "pollRunning", "pollExited", "pollLog"}
  /\ elapsed' = 0
  /\ seen' = <<>>
  /\ pollRes' = "none"
  /\ pc' = "probe"
  /\ UNCHANGED <<scenario, step, result, podVars, calls, stopVars, logVars>>

\* one probe: getContainerStatus(rc, containerID).State, then the matcher
PollProbe ==
  /\ pc = "probe"
  /\ StepKind # "pollLog"
  /\ \E err \in BOOLEAN, state \in ContainerStates :
       IF err
       THEN /\ Fatal
            /\ pollRes' = "ProbeFailed"
            /\ UNCHANGED <<elapsed, seen>>
       ELSE /\ seen' = Append(seen, [t |-> elapsed, ok |-> state = Target(StepKind)])
            /\ elapsed' = elapsed
            /\ IF state = Target(StepKind)
               THEN /\ pollRes' = "success"
                    /\ Advance
               ELSE /\ pollRes' = pollRes
                    /\ pc' = "wait"
                    /\ UNCHANGED <<step, result>>
  /\ UNCHANGED <<scenario, podVars, calls, stopVars, logVars>>

\* between probes: give up once the elapsed time exceeds the timeout, else
\* sleep for the polling interval
PollWait ==
  /\ pc = "wait"
  /\ IF TimedOut(elapsed)
     THEN /\ pollRes' = "TimeoutError"
          /\ Fatal
          /\ UNCHANGED <<elapsed, seen>>
     ELSE /\ elapsed' = elapsed + Interval
          /\ pc' = "probe"
          /\ UNCHANGED <<step, result, seen, pollRes>>
  /\ UNCHANGED <<scenario, podVars, calls, stopVars, logVars>>

\* one probe of Eventually(parseLogLine): the call of parseLogLine
PollLogProbe ==
  /\ pc = "probe"
  /\ StepKind = "pollLog"
  /\ pc' = "open"
  /\ UNCHANGED <<scenario, step, result, podVars, calls, stopVars, pollVars, logVars>>

\* the matcher of ShouldNot(BeEmpty()) on what parseLogLine returned
PollLogMatch ==
  /\ pc = "scanned"
  /\ StepKind = "pollLog"
  /\ seen' = Append(seen, [t |-> elapsed, ok |-> msgLog # <<>>])
  /\ elapsed' = elapsed
  /\ IF msgLog # <<>>
     THEN /\ pollRes' = "success"
          /\ Advance
     ELSE /\ pollRes' = pollRes
          /\ pc' = "wait"
          /\ UNCHANGED <<step, result>>
  /\ UNCHANGED <<scenario, podVars, calls, stopVars, logVars>>

(* ------------------- verifyLogContents and parseLogLine ---------------- *)

\* verifyLogContents is called with (log, stream) and calls parseLogLine;
\* the frame of the Eventually that ran before it is gone
verifyLogContents ==
  /\ Cur = "verifyLog"
  /\ \E q \in Queries : query' = q
  /\ pc' = "open"
  /\ elapsed' = 0
  /\ seen' = <<>>
  /\ pollRes' = "none"
  /\ UNCHANGED <<scenario, step, result, podVars, calls, stopVars,
                 file, idx, msg, msgLog, last, logRes, found>>

parseLogLineOpenRetry ==
  /\ pc = "open"
  /\ \/ /\ logRes' = "IOError"
        /\ IF StepKind = "pollLog"
           THEN pc' = "wait" /\ UNCHANGED <<step, result>>
           ELSE Fatal
        /\ UNCHANGED <<file, idx, msg, msgLog, last>>
     \/ /\ \E f \in (IF StepKind = "pollLog" THEN ProbeFiles ELSE Files) : file' = f
        /\ idx' = 0
        /\ msg' = logMessage
        /\ msgLog' = <<>>
        /\ last' = [line |-> <<>>, enc |-> "none", kind |-> "none"]
        /\ logRes' = "none"
        /\ pc' = "scan"
        /\ UNCHANGED <<step, result>>
  /\ UNCHANGED <<scenario, podVars, calls, stopVars, pollVars, query, found>>

\* parseLogLine up to the scan loop: os.Open, var msg, var msgLog
parseLogLineOpen ==
  /\ pc = "open"
  /\ \/ /\ logRes' = "IOError"
        /\ Fatal
        /\ UNCHANGED <<file, idx, msg, msgLog, last>>
     \/ /\ \E f \in (IF StepKind = "pollLog" THEN ProbeFiles ELSE Files) : file' = f
        /\ idx' = 0
        /\ msg' = logMessage
        /\ msgLog' = <<>>
        /\ last' = [line |-> <<>>, enc |-> "none", kind |-> "none"]
        /\ logRes' = "none"
        /\ pc' = "scan"
        /\ UNCHANGED <<step, result>>
  /\ UNCHANGED <<scenario, podVars, calls, stopVars, pollVars, query, found>>

\* one iteration of the scan loop: decode the next line into msg, append msg
parseLogLineScan ==
  /\ pc = "scan"
  /\ idx < Len(file)
  /\ \E line \in {file[idx + 1]} : \E d \in {DecodeLine(line, msg)} :
        /\ last' = [line |-> line, enc |-> d.enc, kind |-> d.res.kind]
        /\ msg' = d.res.msg
        /\ IF d.res.kind = "ok"
           THEN /\ msgLog' = AppendMsg(msgLog, d.res.msg)
                /\ idx' = idx + 1
                /\ UNCHANGED <<step, pc, result, logRes>>
           ELSE /\ logRes' = d.res.kind
                /\ Fatal
                /\ UNCHANGED <<msgLog, idx>>
  /\ UNCHANGED <<scenario, podVars, calls, stopVars, pollVars, file, query, found>>

\* the scan loop ends: scanner.Err() is checked and msgLog is returned
parseLogLineReturn ==
  /\ pc = "scan"
  /\ idx = Len(file)
  /\ \/ /\ logRes' = "IOError"
        /\ Fatal
     \/ /\ logRes' = "ok"
        /\ pc' = "scanned"
        /\ UNCHANGED <<step, result>>
  /\ UNCHANGED <<scenario, podVars, calls, stopVars, pollVars,
                 file, idx, msg, msgLog, last, query, found>>

\* the rest of verifyLogContents: the scan for (log, stream) and Expect(found)
verifyLogContentsScan ==
  /\ pc = "scanned"
  /\ StepKind = "verifyLog"
  /\ found' = containsMessage(msgLog, query.log, query.stream)
  /\ IF found' THEN Advance ELSE Fatal
  /\ UNCHANGED <<scenario, podVars, calls, stopVars, pollVars,
                 file, idx, msg, msgLog, last, logRes, query>>

(* ---------------------------- specification ---------------------------- *)

Next ==
  \/ BeforeEach
  \/ AfterEach
  \/ CreateContainer
  \/ startContainer
  \/ removeContainer
  \/ getContainerStatus
  \/ listContainerForID
  \/ execSyncContainer
  \/ verifyExecSyncContainOutput
  \/ ImageStatus
  \/ ReopenContainerLog
  \/ createHostPath
  \/ createSymlink
  \/ RenameLog
  \/ pathExists
  \/ Consistently
  \/ stopContainer
  \/ GoStopContainer
  \/ GoSend
  \/ TimerFire
  \/ SelectStopped
  \/ SelectTimeout
  \/ Eventually
  \/ PollProbe
  \/ PollWait
  \/ PollLogProbe
  \/ PollLogMatch
  \/ verifyLogContents
  \/ parseLogLineOpen
  \/ parseLogLineScan
  \/ parseLogLineReturn
  \/ verifyLogContentsScan

Spec == Init /\ [][Next]_vars

\* every goroutine that can take a step eventually takes one
FairSpec == Spec /\ WF_vars(Next)

(* ------------------------------ properties ----------------------------- *)

\* number of space-separated segments of a line
NumSegs(line) == Cardinality({i \in 1..Len(line) : line[i] = SP}) + 1

\* the positions of the spaces of a line
Spaces(line) == {i \in 1..Len(line) : line[i] = SP}

\* the text of a line before its first space
FirstSeg(line) ==
  IF Spaces(line) = {} THEN line
  ELSE SubSeq(line, 1, (CHOOSE i \in Spaces(line) : \A j \in Spaces(line) : i <= j) - 1)

\* a line has been passed to a decoder
Decoded == last.enc # "none"

\* C1 as stated: a line is decoded as encoding A (JSON) if and only if its
\* first non-space character is "{"; in particular a "{" behind spaces is
\* decoded as encoding A.
C1_FirstNonSpace == Decoded => (last.enc = "A" <=> FirstNonSpace(last.line) = LB)

\* C1 amended: a line is decoded as encoding A if and only if its very first
\* character is "{"; every other line, a line whose "{" is preceded by
\* spaces included, is decoded as encoding B.
C1_FirstChar ==
  Decoded =>
    /\ last.enc = "A" <=> (last.line # <<>> /\ Head(last.line) = LB)
    /\ last.enc \in {"A", "B"}
    /\ (last.line # <<>> /\ Head(last.line) = SP) => last.enc = "B"

\* a line whose "{" is preceded by a space has been decoded, as encoding B
C1_Witness ==
  /\ Decoded
  /\ Len(last.line) >= 2
  /\ last.line[1] = SP
  /\ FirstNonSpace(last.line) = LB
  /\ last.enc = "B"

\* C2: parseCRILog ends in the MalformedRecord failure for every line with
\* fewer than 4 space-separated segments and for every line whose first
\* segment is not a valid timestamp; no such line gives a record or any
\* other kind of failure.
C2_Malformed ==
  (last.enc = "B" /\ (NumSegs(last.line) < 4 \/ TimeParse(FirstSeg(last.line)).err))
    => last.kind = "MalformedRecord"

\* C3: for a line TIMESTAMP STREAM TAG CONTENT that parseCRILog accepts, the
\* record's stream is the text between the first and the second space, its
\* payload is everything after the third space followed by one newline,
\* whatever the tag; the line has added exactly one record.
C3_CRIRecord ==
  (last.enc = "B" /\ last.kind = "ok") =>
    \E i, j, k \in Spaces(last.line) :
      /\ i < j /\ j < k
      /\ \A m \in Spaces(last.line) : m \in {i, j} \/ m >= k
      /\ msg.stream = SubSeq(last.line, i + 1, j - 1)
      /\ msg.log = SubSeq(last.line, k + 1, Len(last.line)) \o <<NL>>
      /\ msg.timestamp = TimeParse(SubSeq(last.line, 1, i - 1)).t
      /\ Len(msgLog) = idx
      /\ msgLog[idx] = msg

\* "TSa stdout F hello World" has been decoded to stream stdout, payload "hello World\n"
C3_Witness ==
  /\ last = [line |-> <<TSa, SP, "stdout", SP, "F", SP, "hello", SP, "World">>,
             enc |-> "B", kind |-> "ok"]
  /\ msg.stream = stdoutType
  /\ msg.log = <<"hello", SP, "World", NL>>

\* the index of the last member of a JSON line with key k, 0 when there is none
LastMember(line, k) ==
  LET idxs == {i \in 1..Len(line) : JSONMember(line[i]).key = k}
  IN IF idxs = {} THEN 0 ELSE CHOOSE i \in idxs : \A j \in idxs : j <= i

\* C4: for every JSON line parseDockerJSONLog accepts, the record's stream is
\* the JSON stream field, its timestamp the JSON time field and its payload
\* the JSON log field verbatim, with no newline added.
C4_JSONRecord ==
  (last.enc = "A" /\ last.kind = "ok") =>
    /\ LastMember(last.line, "stream") # 0 =>
         msg.stream = JSONMember(last.line[LastMember(last.line, "stream")]).val
    /\ LastMember(last.line, "log") # 0 =>
         msg.log = JSONMember(last.line[LastMember(last.line, "log")]).val
    /\ LastMember(last.line, "time") # 0 =>
         msg.timestamp = TimeParse(JSONMember(last.line[LastMember(last.line, "time")]).val).t
    /\ msgLog[idx] = msg

\* {"log":"hello","stream":"stdout","time":TSa} has been decoded; the payload is "hello"
C4_Witness ==
  /\ last = [line |-> <<LB, JLog, COMMA, JStreamOut, COMMA, JTimeA, RB>>,
             enc |-> "A", kind |-> "ok"]
  /\ msg = [timestamp |-> [sec |-> 1029, nsec |-> 669794202],
            stream |-> stdoutType, log |-> <<"hello">>]

\* the scan of verifyLogContents has run on the sequence parseLogLine returned
Verified == scenario = "log" /\ logRes = "ok" /\ pc # "scanned"

\* C5: the scan of verifyLogContents reports found if and only if some
\* record has exactly the queried payload and exactly the queried stream.
C5_ExactMatch ==
  Verified =>
    /\ found <=> \E i \in 1..Len(msgLog) :
                   msgLog[i].log = query.log /\ msgLog[i].stream = query.stream
    /\ found <=> result = "passed"

\* the sequence holds {stdout, "hello\n"}; the query ("hello\n", stderr) was not found
C5_Witness ==
  /\ Verified
  /\ ~found
  /\ query = [log |-> <<"hello", NL>>, stream |-> stderrType]
  /\ \E i \in 1..Len(msgLog) : msgLog[i].log = <<"hello", NL>> /\ msgLog[i].stream = stdoutType

\* C6: parseLogLine returns one record per line in file order: the i-th
\* record is the decoding of the i-th line; the sequence is not re-sorted by
\* timestamp; an empty file gives an empty sequence.
C6_FileOrder ==
  /\ Len(msgLog) = idx
  /\ \A i \in 1..Len(msgLog) : msgLog[i] = DecodeLine(file[i], logMessage).res.msg
  /\ logRes = "ok" => Len(msgLog) = Len(file)

\* a file of two lines whose timestamps decrease has been read
C6_Witness ==
  /\ logRes = "ok"
  /\ Len(file) = 2
  /\ Len(msgLog) = 2
  /\ msgLog[1].timestamp.sec > msgLog[2].timestamp.sec
  /\ msgLog[2].timestamp.sec > 0

\* C7: a poll whose predicate holds on the first probe succeeds after one
\* probe at time 0; a poll whose predicate never holds ends in TimeoutError
\* at a time between timeout and timeout + interval; the probes run one
\* after another at the fixed interval.
C7_Poll ==
  /\ \E d \in {PollInterval, LogPollInterval} :
       \A i \in 1..Len(seen) : seen[i].t = (i - 1) * d
  /\ (pollRes = "success" /\ seen[1].ok) => (Len(seen) = 1 /\ elapsed = 0)
  /\ pollRes = "success" => seen[Len(seen)].ok
  /\ pollRes = "TimeoutError" =>
       /\ elapsed >= PollTimeout
       /\ elapsed <= PollTimeout + Interval
       /\ seen # <<>>
       /\ seen[Len(seen)].t = elapsed
       /\ \A i \in 1..Len(seen) : ~seen[i].ok

\* a poll whose predicate never held has ended in TimeoutError
C7_Witness ==
  /\ pollRes = "TimeoutError"
  /\ result = "failed"
  /\ Len(seen) > 1

\* stopContainer has left its select
StopReturned == reportedStopped \/ reportedTimeout

\* C8 as stated: the outcome is that of whichever completes first: when
\* StopContainer returns without error before the timer fires, stopContainer
\* reports the container stopped and does not fail; when the timer fires
\* first, it fails with a stop timeout; never both, never neither.
C8_FirstWins ==
  /\ ~(reportedStopped /\ reportedTimeout)
  /\ StopReturned =>
       /\ (order[1] = "returned" /\ ~callErr) => reportedStopped
       /\ order[1] = "timer" => reportedTimeout

\* C8 amended: stopContainer reports the container stopped only when
\* StopContainer has returned without error and the goroutine has sent on
\* stopped, and fails with a stop timeout only when the timer has fired; so
\* when one signal only is there at the select the outcome is that path's,
\* and when both are there either may be taken.  It never reports both, and
\* it leaves the select only with one of the two.
C8_SelectReady ==
  /\ ~(reportedStopped /\ reportedTimeout)
  /\ reportedStopped => (gpc = "done" /\ ~callErr /\ order # <<>>)
  /\ reportedTimeout => (\E i \in 1..Len(order) : order[i] = "timer")
  /\ (gpc # "idle" /\ pc # "select") => StopReturned
  /\ pc = "select" => ~StopReturned

\* StopContainer returned without error before the timer fired, and
\* stopContainer failed with the stop timeout
C8_Witness ==
  /\ reportedTimeout
  /\ ~callErr
  /\ order = <<"returned", "timer">>

\* the teardown calls of the context, made once the It block is over
C9_Order ==
  /\ pc = "done" =>
       /\ Len(sbCalls) >= 2
       /\ sbCalls[1] = [op |-> "StopPodSandbox", id |-> podID]
       /\ sbCalls[2] = [op |-> "RemovePodSandbox", id |-> podID]
       /\ \A i \in 3..Len(sbCalls) : sbCalls[i].op \notin {"StopPodSandbox", "RemovePodSandbox"}
       /\ result \in {"passed", "failed"}
  /\ pc # "done" => sbCalls = <<>>
  /\ (result = "failed" /\ gpc # "failed") => pc \in {"AfterEach", "done"}

\* C9: after each scenario, passed or aborted at any step, the teardown runs
\* and calls StopPodSandbox and then RemovePodSandbox on the scenario's
\* sandbox; a fatal condition skips only the rest of the scenario's steps.
C9_Teardown == [](C9_Order) /\ <>(pc = "done")

\* a scenario aborted in a step after its sandbox was created, and was torn down
C9_Witness ==
  /\ pc = "done"
  /\ result = "failed"
  /\ podID = "pod"
  /\ step >= 2
  /\ Len(sbCalls) >= 2

\* the index of the stopContainer step of the scenario
StopStep == CHOOSE i \in 1..Len(Steps(scenario)) : Steps(scenario)[i] = "stopContainer"

\* C10: when StopContainer returns an error, stopContainer ends in failure
\* in every interleaving: the container is never reported stopped, and the
\* later steps (the poll for EXITED, removeContainer) are not executed.
C10_StopError ==
  callErr =>
    /\ ~reportedStopped
    /\ stopped = <<>>
    /\ step = StopStep
    /\ seen = <<>>
    /\ \A i \in 1..Len(calls) : calls[i] # "RemoveContainer"
    /\ pc \in {"select", "AfterEach", "done"}
    /\ pc # "select" => (reportedTimeout /\ result = "failed")
    /\ gpc = "failed" => result = "failed"

\* StopContainer returned an error and the scenario has ended as failed
C10_Witness ==
  /\ callErr
  /\ gpc = "failed"
  /\ pc = "done"
  /\ result = "failed"
  /\ reportedTimeout

\* a probe of the current poll ended in a fatal error: the status call of
\* getContainerStatus failed, or parseLogLine could not read the log
ProbeFailed ==
  \/ pollRes = "ProbeFailed"
  \/ StepKind = "pollLog" /\ logRes \notin {"none", "ok"}

\* C11: a fatal error inside a polled probe is never retried: the poll has
\* ended in failure at that probe, without a wait after the last completed
\* probe, and from then on no probe runs, no time passes in the poll, the
\* log is not read again and no further call is made on the container.
C11_NoRetry ==
  /\ [](ProbeFailed =>
          /\ pc \in {"AfterEach", "done"}
          /\ result = "failed"
          /\ pollRes \notin {"success", "TimeoutError"}
          /\ elapsed = Len(seen) * Interval)
  /\ [][ProbeFailed =>
          /\ ProbeFailed'
          /\ pc' \in {"AfterEach", "done"}
          /\ <<step, result, calls, elapsed, seen, pollRes>>' =
               <<step, result, calls, elapsed, seen, pollRes>>
          /\ <<file, idx, msgLog, logRes>>' = <<file, idx, msgLog, logRes>>]_vars

\* the first probe of the poll for a non-empty log could not open the log
\* file, and the scenario has ended as failed
C11_Witness ==
  /\ scenario = "reopen"
  /\ StepKind = "pollLog"
  /\ step = 3
  /\ logRes = "IOError"
  /\ seen = <<>>
  /\ elapsed = 0
  /\ pc = "done"
  /\ result = "failed"

\* C12: after the timer case of stopContainer has won, the StopContainer call
\* still in the background is not cancelled and its later completion is
\* tolerated: the goroutine is never blocked at its send (the channel holds
\* at most one value and the goroutine sends at most once), and the timeout
\* failure that was reported stays a failure and is never turned into a
\* report that the container stopped.
C12_LateCompletion ==
  /\ [](/\ Len(stopped) <= 1
        /\ gpc = "call" => ENABLED GoStopContainer
        /\ (gpc = "returned" /\ ~callErr) => ENABLED GoSend
        /\ reportedTimeout =>
             /\ ~reportedStopped
             /\ result = "failed"
             /\ pc \in {"AfterEach", "done"})
  /\ [][/\ reportedTimeout =>
             /\ reportedTimeout'
             /\ ~reportedStopped'
             /\ result' = "failed"
             /\ gpc = "call" => gpc' \in {"call", "returned"}
        /\ gpc \in {"done", "failed"} => gpc' = gpc
        /\ Len(stopped') > Len(stopped) => (gpc = "returned" /\ gpc' = "done")]_vars

\* the timer fired before StopContainer returned, the timeout was reported,
\* and the goroutine has nevertheless sent its value and ended; the value
\* stays in the channel and the scenario has ended as failed
C12_Witness ==
  /\ reportedTimeout
  /\ order = <<"timer", "returned">>
  /\ gpc = "done"
  /\ stopped = <<TRUE>>
  /\ pc = "done"
  /\ result = "failed"

\* the positions of the RemoveContainer calls among the calls made on the container
Removes == {i \in 1..Len(calls) : calls[i] = "RemoveContainer"}

\* C13: removeContainer is called only on a container that is not running:
\* the scenario never started it, or StopContainer returned after the last
\* start and stopContainer reported the container stopped; a stopContainer
\* before the removal has completed successfully; and after the removal the
\* scenario makes no start, stop or exec call on the container and has no
\* stop in flight.
C13_Lifecycle ==
  \A i \in Removes :
    /\ \/ \A j \in 1..(i - 1) : calls[j] # "StartContainer"
       \/ \E k \in 1..(i - 1) :
            /\ calls[k] = "StopContainer"
            /\ \A j \in k..(i - 1) : calls[j] # "StartContainer"
            /\ reportedStopped
    /\ (\E k \in 1..(i - 1) : calls[k] = "StopContainer") =>
         (reportedStopped /\ ~reportedTimeout /\ ~callErr)
    /\ \A j \in (i + 1)..Len(calls) :
         calls[j] \notin {"StartContainer", "StopContainer", "ExecSync"}
    /\ gpc \in {"idle", "done"}
    /\ pc # "select"

\* the removing-volumes scenario has passed: the container was stopped, the
\* stop was reported, and then the container was removed
C13_Witness ==
  /\ scenario = "volumes"
  /\ calls = <<"CreateContainer", "ContainerStatus", "StopContainer", "RemoveContainer">>
  /\ reportedStopped
  /\ result = "passed"
  /\ pc = "done"

\* the stream members a generated JSON line may carry
StreamMembers == {JStreamOut, JStreamErr, JStreamEmpty, JStreamOther}

\* the stream marker as the line gives it: the second space-separated
\* segment (encoding "B"), the last stream member or "" (encoding "A")
StreamToken(line, enc) ==
  IF enc = "B"
  THEN SplitN(line, 4)[2]
  ELSE LET at == {i \in 1..Len(line) : line[i] \in StreamMembers}
       IN IF at = {} THEN <<>>
          ELSE JSONMember(line[CHOOSE i \in at : \A j \in at : j <= i]).val

\* the line with its stream marker replaced by stdout
WithStdout(line, enc) ==
  IF enc = "B"
  THEN LET segs == SplitN(line, 4)
       IN IF Len(segs) < 2 THEN line
          ELSE segs[1] \o <<SP>> \o stdoutType
               \o (IF Len(segs) >= 3 THEN <<SP>> \o segs[3] ELSE <<>>)
               \o (IF Len(segs) >= 4 THEN <<SP>> \o segs[4] ELSE <<>>)
  ELSE [i \in 1..Len(line) |-> IF line[i] \in StreamMembers THEN JStreamOut ELSE line[i]]

IsStd(m) == m.stream \in {stdoutType, stderrType}

\* C14: decoding never rejects a line because of its stream marker and never
\* rewrites it: for both encodings the outcome of the decode is the one the
\* same line has with stdout as its marker, a decoded record carries the
\* marker exactly as the line gives it (the empty string included), and the
\* records whose stream is neither stdout nor stderr contribute to no match
\* of a query for stdout or stderr.
C14_StreamVerbatim ==
  /\ last.enc # "none" =>
       /\ DecodeLine(WithStdout(last.line, last.enc), logMessage).enc = last.enc
       /\ DecodeLine(WithStdout(last.line, last.enc), logMessage).res.kind = last.kind
  /\ last.kind = "ok" => msg.stream = StreamToken(last.line, last.enc)
  /\ \A q \in Queries :
       containsMessage(msgLog, q.log, q.stream)
         = containsMessage(SelectSeq(msgLog, IsStd), q.log, q.stream)

\* a CRI line marked "other" was decoded without error, its record keeps the
\* marker, and the query for the same text on stdout found nothing
C14_Witness ==
  /\ Verified
  /\ file = <<<<TSa, SP, "other", SP, "F", SP, "hello", SP, "World">>>>
  /\ msgLog = <<[timestamp |-> TimeParse(<<TSa>>).t, stream |-> <<"other">>,
                 log |-> defaultLog \o <<NL>>]>>
  /\ query = [log |-> defaultLog \o <<NL>>, stream |-> stdoutType]
  /\ ~found
  /\ result = "failed"

\* values the reused variable msg may hold when a line is decoded: its zero
\* value, the records decoded so far, and its current value
PriorMsgs == {logMessage, msg} \cup {msgLog[j] : j \in 1..Len(msgLog)}

\* C15: no field leaks from one line into another through the one msg
\* variable parseLogLine reuses: the i-th record is what the i-th line
\* decodes to whatever msg held before, lines of the two encodings may be
\* mixed, a JSON line that omits a member gives that field its zero value,
\* and decoding later lines leaves the records already appended unchanged.
C15_NoLeak ==
  /\ [](\A i \in 1..Len(msgLog) :
          /\ \A m \in PriorMsgs : DecodeLine(file[i], m).res.msg = msgLog[i]
          /\ HasPrefixLB(file[i]) =>
               /\ LastMember(file[i], "stream") = 0 => msgLog[i].stream = <<>>
               /\ LastMember(file[i], "time") = 0 => msgLog[i].timestamp = ZeroTime
               /\ LastMember(file[i], "log") = 0 => msgLog[i].log = <<>>)
  /\ [][pc = "scan" =>
          /\ Len(msgLog') >= Len(msgLog)
          /\ SubSeq(msgLog', 1, Len(msgLog)) = msgLog]_vars

\* a CRI line for stdout followed by a JSON line with only a log member: the
\* second record has the empty stream and the zero timestamp
C15_Witness ==
  /\ logRes = "ok"
  /\ file = <<<<TSa, SP, "stdout", SP, "F", SP, "hello", SP, "World">>, <<LB, JLog, RB>>>>
  /\ Len(msgLog) = 2
  /\ msgLog[1].stream = stdoutType
  /\ msgLog[1].timestamp # ZeroTime
  /\ msgLog[2] = [timestamp |-> ZeroTime, stream |-> <<>>, log |-> <<"hello">>]

====
